---- MODULE Spec2Model ----
(***************************************************************************)
(* Startup of the tabby `serve` command (crates/tabby/src/serve.rs) and    *)
(* the model resolution it relies on (crates/tabby/src/services/model).    *)
(* The main task walks the statements of `main` in order; the spinner task *)
(* spawned by try_run_spinner runs concurrently and talks to main through  *)
(* one oneshot channel.  Once run_app is serving, requests are dispatched  *)
(* against the route table built by api_router.                            *)
(***************************************************************************)
EXTENDS Integers, Sequences, FiniteSets, TLC

\* Bounds of the explored inputs.
MaxTimeout == 2
MaxParallelism == 2

(***************************************************************************)
(* Values                                                                  *)
(***************************************************************************)
\* Option::None, for every optional value of the program.
None == [tag |-> "None"]
Some(v) == [tag |-> "Some", val |-> v]

\* tabby_common::config::ModelConfig, as the source matches on it.
Http(endpoint) == [tag |-> "Http", api_endpoint |-> endpoint]
Local(model_id, parallelism, device) ==
    [tag |-> "Local", model_id |-> model_id, parallelism |-> parallelism, device |-> device]

Devices == {"Cpu", "Cuda"}

\* crate::to_local_config: the entry synthesized from the CLI arguments.
to_local_config(model, parallelism, device) == Local(model, parallelism, device)

\* Outcome of a call that may panic.
Ok(v) == [ok |-> TRUE, val |-> v, msg |-> ""]
Panic(m) == [ok |-> FALSE, val |-> None, msg |-> m]

OverrideWarning == "warn: Overriding completion model from config.toml"
SpinnerClosedWarning == "warn: Spinner channel is closed"
StartingDebug == "debug: Starting server, this might take a few minutes..."

(***************************************************************************)
(* Inputs                                                                  *)
(***************************************************************************)
FileModels == {None, Http("https://remote"), Local("file-model", 1, "Cpu")}

Configs ==
    [model : [completion : FileModels, chat : FileModels, embedding : FileModels \ {None}],
     server : [completion_timeout : 1..MaxTimeout],
     completion : {[tag |-> "CompletionConfig"]}]

ServeArgsSet ==
    [model : {None, Some("cli-model")},
     host : {"0.0.0.0"},
     port : {8080},
     device : Devices,
     parallelism : 1..MaxParallelism]

VARIABLES
    baseConfig,         \* the config handed to main
    args,               \* the ServeArgs handed to main
    prod,               \* cfg!(feature = "prod")
    config,             \* main's merged config (None before merge_args has run)
    pc,                 \* the statement of main that runs next
    panic_msg,          \* the panic message when pc = "panicked"
    done,               \* the stages main has finished, in order
    log,                \* tracing output, in order
    embedding,          \* main's embedding handle
    docsearch,          \* main's docsearch handle
    code,               \* main's code-search handle
    engine,             \* the resolved completion engine and its PromptInfo
    chat,               \* the resolved chat handle
    completion_service, \* main's completion_service
    api,                \* the Router returned by api_router
    tx,                 \* the oneshot channel: "none", "open", "sent", "closed"
    spinner,            \* the spinner task: "none", "spawned", "waiting", "stopped"
    response            \* the latest request and the response it got

vars == <<baseConfig, args, prod, config, pc, panic_msg, done, log, embedding, docsearch,
          code, engine, chat, completion_service, api, tx, spinner, response>>

inputs == <<baseConfig, args, prod>>
handles == <<embedding, docsearch, code, engine, chat, completion_service>>
spinnerVars == <<tx, spinner>>

(***************************************************************************)
(* serve.rs: merge_args                                                    *)
(***************************************************************************)
\* merge_args with the precedence reversed: a file-configured completion model
\* survives the CLI override.
merge_args_keeps_file(base, a) ==
    IF a.model # None
    THEN [config |-> IF base.model.completion # None THEN base
                     ELSE [base EXCEPT !.model.completion =
                               to_local_config(a.model.val, a.parallelism, a.device)],
          warnings |-> IF base.model.completion # None THEN <<OverrideWarning>> ELSE <<>>]
    ELSE [config |-> base, warnings |-> <<>>]

\* merge_args that rebuilds the model section around the override and loses the
\* chat entry.
merge_args_resets_model(base, a) ==
    IF a.model # None
    THEN [config |-> [base EXCEPT !.model.completion =
                          to_local_config(a.model.val, a.parallelism, a.device),
                                  !.model.chat = None],
          warnings |-> IF base.model.completion # None THEN <<OverrideWarning>> ELSE <<>>]
    ELSE [config |-> base, warnings |-> <<>>]

\* The merged config and the warnings emitted while merging.
merge_args(base, a) ==
    IF a.model # None
    THEN [config |-> [base EXCEPT !.model.completion =
                          to_local_config(a.model.val, a.parallelism, a.device)],
          warnings |-> IF base.model.completion # None THEN <<OverrideWarning>> ELSE <<>>]
    ELSE [config |-> base, warnings |-> <<>>]

(***************************************************************************)
(* services/model/mod.rs                                                   *)
(***************************************************************************)
\* download_model_if_needed: one log line, chosen by fs::metadata(model).is_ok().
download_model_if_needed(model, exists) ==
    IF exists THEN <<"info: Loading model from local path">>
              ELSE <<"warn: Model not found at local path">>

\* serve.rs load_model: the existence checks for a Local completion and a Local
\* embedding entry, in that order.
load_model(cfg, completionExists, embeddingExists) ==
    (IF cfg.model.completion.tag = "Local"
        THEN download_model_if_needed(cfg.model.completion.model_id, completionExists)
        ELSE <<>>)
    \o
    (IF cfg.model.embedding.tag = "Local"
        THEN download_model_if_needed(cfg.model.embedding.model_id, embeddingExists)
        ELSE <<>>)

\* http_api_bindings::create*: a handle on the remote backend of a role.
http_api_bindings(role, http) == [tag |-> "Handle", role |-> role, http |-> http]

load_embedding(cfg) ==
    IF cfg.tag = "Http" THEN Ok(http_api_bindings("embedding", cfg))
    ELSE Panic("Local embedding model is not supported")

\* load_completion that treats a Local entry like a remote one.
load_completion_accepts_local(completion_model) ==
    IF completion_model # None
    THEN Ok([completion |-> http_api_bindings("completion", completion_model),
             prompt |-> [tag |-> "PromptInfo", of |-> completion_model]])
    ELSE Ok([completion |-> None, prompt |-> None])

\* load_completion_and_chat, first half: the completion engine and its PromptInfo.
load_completion(completion_model) ==
    IF completion_model # None
    THEN IF completion_model.tag = "Http"
         THEN Ok([completion |-> http_api_bindings("completion", completion_model),
                  prompt |-> [tag |-> "PromptInfo", of |-> completion_model]])
         ELSE Panic("Local completion model is not supported")
    ELSE Ok([completion |-> None, prompt |-> None])

\* load_chat that silently ignores a Local entry.
load_chat_skips_local(chat_model) ==
    IF chat_model # None /\ chat_model.tag = "Http"
    THEN Ok(http_api_bindings("chat", chat_model))
    ELSE Ok(None)

\* load_completion_and_chat, second half: the chat handle.
load_chat(chat_model) ==
    IF chat_model # None
    THEN IF chat_model.tag = "Http"
         THEN Ok(http_api_bindings("chat", chat_model))
         ELSE Panic("Local chat model is not supported")
    ELSE Ok(None)

\* load_code_generation_and_chat: CodeGeneration exists exactly when the engine does.
load_code_generation(eng, completion_model) ==
    IF eng # None
    THEN [tag |-> "CodeGeneration", engine |-> eng, model |-> completion_model]
    ELSE None

\* services::completion::create_completion_service_and_chat: the CompletionService
\* wraps the CodeGeneration, the code search and the logger when there is one.
create_completion_service(completion_config, codeSearch, logger, codegen) ==
    IF codegen # None
    THEN [tag |-> "CompletionService", config |-> completion_config,
          engine |-> codegen, code |-> codeSearch, logger |-> logger]
    ELSE None

(***************************************************************************)
(* serve.rs: try_run_spinner                                               *)
(***************************************************************************)
\* try_run_spinner that spawns the task whatever the feature flag.
try_run_spinner_always(isProd) ==
    [tx |-> "open", spinner |-> "spawned", log |-> <<>>]

try_run_spinner(isProd) ==
    IF isProd THEN [tx |-> "open", spinner |-> "spawned", log |-> <<>>]
              ELSE [tx |-> "none", spinner |-> "none", log |-> <<StartingDebug>>]

(***************************************************************************)
(* serve.rs: api_router, over axum's Router                                *)
(***************************************************************************)
\* A Router is its routes in registration order; overlap records that a route was
\* registered for a path and method the router already had (axum panics there).
RouterNew == [tag |-> "Router", routes |-> <<>>, overlap |-> FALSE]

HasRoute(router, path, method) ==
    \E i \in DOMAIN router.routes :
        router.routes[i].path = path /\ router.routes[i].method = method

\* Router::route(path, routing::<method>(handler).with_state(state))
Route(router, path, method, handler, state) ==
    [router EXCEPT
        !.routes = Append(@, [path |-> path, method |-> method, handler |-> handler,
                              state |-> state, layers |-> <<>>]),
        !.overlap = @ \/ HasRoute(router, path, method)]

\* Router::layer(l): wraps the routes the router has at the time of the call, and
\* none of the routes added afterwards.
Layer(router, l) ==
    [router EXCEPT
        !.routes = [i \in DOMAIN router.routes |->
                        [router.routes[i] EXCEPT !.layers = Append(@, l)]]]

\* Router::merge(other)
Merge(root, other) ==
    [root EXCEPT
        !.routes = @ \o other.routes,
        !.overlap = @ \/ other.overlap
                      \/ \E i \in DOMAIN other.routes :
                            HasRoute(root, other.routes[i].path, other.routes[i].method)]

RECURSIVE MergeAll(_, _)
\* for router in routers { root = root.merge(router) }
MergeAll(root, routers) ==
    IF routers = <<>> THEN root
    ELSE MergeAll(Merge(root, Head(routers)), Tail(routers))

TimeoutLayer(secs) == [tag |-> "TimeoutLayer", secs |-> secs]
AllowedCodeRepositoryLayer == [tag |-> "Extension", of |-> "AllowedCodeRepository"]
NotImplementedHandler == "StatusCode::NOT_IMPLEMENTED"

\* The state of the /v1/models handler: config.clone().into()
ModelInfo(cfg) == [tag |-> "ModelInfo", model |-> cfg.model]

\* completion_router without the else branch: no route when the handle is absent.
completion_router_no_fallback(cfg, completion_state, chat_state) ==
    IF completion_state # None
    THEN LET withCompletion ==
                 Layer(Route(RouterNew, "/v1/completions", "POST",
                             "routes::completions", completion_state),
                       TimeoutLayer(cfg.server.completion_timeout))
             withChat ==
                 IF chat_state # None
                 THEN Route(withCompletion, "/v1/chat/completions", "POST",
                            "routes::chat_completions", chat_state)
                 ELSE withCompletion
         IN  Layer(withChat, AllowedCodeRepositoryLayer)
    ELSE RouterNew

\* The sub-router of the completion endpoints.
completion_router(cfg, completion_state, chat_state) ==
    IF completion_state # None
    THEN LET withCompletion ==
                 Layer(Route(RouterNew, "/v1/completions", "POST",
                             "routes::completions", completion_state),
                       TimeoutLayer(cfg.server.completion_timeout))
             withChat ==
                 IF chat_state # None
                 THEN Route(withCompletion, "/v1/chat/completions", "POST",
                            "routes::chat_completions", chat_state)
                 ELSE withCompletion
         IN  Layer(withChat, AllowedCodeRepositoryLayer)
    ELSE Route(RouterNew, "/v1/completions", "POST", NotImplementedHandler, None)

\* api_router that pushes the fixed /v1/completions handler after the if/else, so it
\* is registered next to the active one as well.
api_router_fallback_always(a, cfg, logger, codeSearch, completion_state, chat_state) ==
    LET routers ==
            << Route(RouterNew, "/v1/events", "POST", "routes::log_event", logger),
               Route(RouterNew, "/v1/models", "GET", "routes::models", ModelInfo(cfg)),
               completion_router(cfg, completion_state, chat_state),
               Route(RouterNew, "/v1/completions", "POST", NotImplementedHandler, None),
               Route(RouterNew, "/v1beta/server_setting", "GET", "routes::setting", None) >>
    IN  MergeAll(RouterNew, routers)

api_router(a, cfg, logger, codeSearch, completion_state, chat_state) ==
    LET routers ==
            << Route(RouterNew, "/v1/events", "POST", "routes::log_event", logger),
               Route(RouterNew, "/v1/models", "GET", "routes::models", ModelInfo(cfg)),
               completion_router(cfg, completion_state, chat_state),
               Route(RouterNew, "/v1beta/server_setting", "GET", "routes::setting", None) >>
    IN  MergeAll(RouterNew, routers)

(***************************************************************************)
(* Serving: how the route table answers a request                          *)
(***************************************************************************)
Methods == {"GET", "POST"}
Paths == {"/v1/events", "/v1/models", "/v1/completions", "/v1/chat/completions",
          "/v1beta/server_setting", "/v1/unknown"}

RoutesAt(router, path, method) ==
    {i \in DOMAIN router.routes :
        router.routes[i].path = path /\ router.routes[i].method = method}

LayerTags(route) == {route.layers[i].tag : i \in DOMAIN route.layers}

\* 404 for a path with no route, 405 for a path without that method, 501 from the
\* fixed handler, and otherwise the handler the route is bound to.
Dispatch(router, method, path) ==
    LET hits == RoutesAt(router, path, method)
    IN  IF hits # {}
        THEN LET r == router.routes[CHOOSE i \in hits : TRUE]
             IN  [status |-> IF r.handler = NotImplementedHandler THEN 501 ELSE 200,
                  handler |-> r.handler, layers |-> LayerTags(r)]
        ELSE [status |-> IF \E m \in Methods : RoutesAt(router, path, m) # {}
                            THEN 405 ELSE 404,
              handler |-> "none", layers |-> {}]

(***************************************************************************)
(* serve.rs: main, statement by statement                                  *)
(***************************************************************************)
\* main with completion and chat resolution moved ahead of the embedding stage.
MainStagesCompletionFirst ==
    << "merge_args", "load_model", "try_run_spinner", "completion", "chat",
       "embedding", "docsearch", "code_search", "completion_service", "api_router",
       "signal", "run_app" >>

\* The statements of main in program order.
MainStages ==
    << "merge_args", "load_model", "try_run_spinner", "embedding", "docsearch",
       "code_search", "completion", "chat", "completion_service", "api_router",
       "signal", "run_app" >>

StageAfter(stage) ==
    LET i == CHOOSE k \in DOMAIN MainStages : MainStages[k] = stage
    IN  IF i = Len(MainStages) THEN "serving" ELSE MainStages[i + 1]

Logger == [tag |-> "EventLogger"]
IndexReaderProvider == [tag |-> "IndexReaderProvider"]

Init ==
    /\ baseConfig \in Configs
    /\ args \in ServeArgsSet
    /\ prod \in BOOLEAN
    /\ config = None
    /\ pc = MainStages[1]
    /\ panic_msg = ""
    /\ done = <<>>
    /\ log = <<>>
    /\ embedding = None
    /\ docsearch = None
    /\ code = None
    /\ engine = None
    /\ chat = None
    /\ completion_service = None
    /\ api = None
    /\ tx = "none"
    /\ spinner = "none"
    /\ response = None

\* The statement at pc completed.
Advance ==
    /\ pc' = StageAfter(pc)
    /\ done' = Append(done, pc)
    /\ panic_msg' = panic_msg

\* The statement at pc panicked.
Abort(msg) ==
    /\ pc' = "panicked"
    /\ panic_msg' = msg
    /\ done' = done

\* let config = merge_args(config, args);
MergeArgs ==
    /\ pc = "merge_args"
    /\ LET m == merge_args(baseConfig, args)
       IN  /\ config' = m.config
           /\ log' = log \o m.warnings
    /\ Advance
    /\ UNCHANGED <<inputs, handles, api, spinnerVars, response>>

\* load_model(&config).await;
LoadModel ==
    /\ pc = "load_model"
    /\ \E completionExists \in BOOLEAN, embeddingExists \in BOOLEAN :
          log' = log \o load_model(config, completionExists, embeddingExists)
    /\ Advance
    /\ UNCHANGED <<inputs, config, handles, api, spinnerVars, response>>

\* let tx = try_run_spinner();
TryRunSpinner ==
    /\ pc = "try_run_spinner"
    /\ LET s == try_run_spinner(prod)
       IN  /\ tx' = s.tx
           /\ spinner' = s.spinner
           /\ log' = log \o s.log
    /\ Advance
    /\ UNCHANGED <<inputs, config, handles, api, response>>

\* let embedding = embedding::create(&config.model.embedding).await;
CreateEmbedding ==
    /\ pc = "embedding"
    /\ LET r == load_embedding(config.model.embedding)
       IN  IF r.ok THEN embedding' = r.val /\ Advance
                   ELSE embedding' = embedding /\ Abort(r.msg)
    /\ UNCHANGED <<inputs, config, log, docsearch, code, engine, chat,
                   completion_service, api, spinnerVars, response>>

\* let docsearch = Arc::new(services::structured_doc::create(embedding.clone(), ..));
CreateDocSearch ==
    /\ pc = "docsearch"
    /\ docsearch' = [tag |-> "DocSearch", embedding |-> embedding,
                     provider |-> IndexReaderProvider]
    /\ Advance
    /\ UNCHANGED <<inputs, config, log, embedding, code, engine, chat,
                   completion_service, api, spinnerVars, response>>

\* let code = Arc::new(create_code_search(embedding.clone(), ..));
CreateCodeSearch ==
    /\ pc = "code_search"
    /\ code' = [tag |-> "CodeSearch", embedding |-> embedding,
                provider |-> IndexReaderProvider]
    /\ Advance
    /\ UNCHANGED <<inputs, config, log, embedding, docsearch, engine, chat,
                   completion_service, api, spinnerVars, response>>

\* create_completion_service_and_chat(..).await: the completion engine.
ResolveCompletion ==
    /\ pc = "completion"
    /\ LET r == load_completion(config.model.completion)
       IN  IF r.ok THEN engine' = r.val /\ Advance
                   ELSE engine' = engine /\ Abort(r.msg)
    /\ UNCHANGED <<inputs, config, log, embedding, docsearch, code, chat,
                   completion_service, api, spinnerVars, response>>

\* create_completion_service_and_chat(..).await: the chat handle.
ResolveChat ==
    /\ pc = "chat"
    /\ LET r == load_chat(config.model.chat)
       IN  IF r.ok THEN chat' = r.val /\ Advance
                   ELSE chat' = chat /\ Abort(r.msg)
    /\ UNCHANGED <<inputs, config, log, embedding, docsearch, code, engine,
                   completion_service, api, spinnerVars, response>>

\* create_completion_service_and_chat(..).await: the CompletionService it returns.
CreateCompletionService ==
    /\ pc = "completion_service"
    /\ completion_service' =
          create_completion_service(
              config.completion, code, Logger,
              load_code_generation(IF engine = None THEN None ELSE engine.completion,
                                   config.model.completion))
    /\ Advance
    /\ UNCHANGED <<inputs, config, log, embedding, docsearch, code, engine, chat,
                   api, spinnerVars, response>>

\* let mut api = api_router(args, &config, logger, code, completion_service, chat).await;
ApiRouter ==
    /\ pc = "api_router"
    /\ LET r == api_router(args, config, Logger, code, completion_service, chat)
       IN  IF r.overlap THEN api' = api /\ Abort("Overlapping method route")
                        ELSE api' = r /\ Advance
    /\ UNCHANGED <<inputs, config, log, handles, spinnerVars, response>>

\* if let Some(tx) = tx { tx.send(()).unwrap_or_else(|_| warn!(..)) }
Signal ==
    /\ pc = "signal"
    /\ IF tx = "open"
       THEN IF spinner \in {"spawned", "waiting"}
            THEN tx' = "sent" /\ log' = log
            ELSE tx' = "closed" /\ log' = Append(log, SpinnerClosedWarning)
       ELSE tx' = tx /\ log' = log
    /\ Advance
    /\ UNCHANGED <<inputs, config, handles, api, spinner, response>>

\* run_app(api, Some(ui), args.host, args.port).await
RunApp ==
    /\ pc = "run_app"
    /\ Advance
    /\ UNCHANGED <<inputs, config, log, handles, api, spinnerVars, response>>

\* A request served by the running app.
Request ==
    /\ pc = "serving"
    /\ \E method \in Methods, path \in Paths :
          response' = [method |-> method, path |-> path,
                       result |-> Dispatch(api, method, path)]
    /\ UNCHANGED <<inputs, config, pc, panic_msg, done, log, handles, api, spinnerVars>>

\* A panic unwinds main's frame and drops the Sender it still holds.
Unwind ==
    /\ pc = "panicked"
    /\ tx = "open"
    /\ tx' = "closed"
    /\ UNCHANGED <<inputs, config, pc, panic_msg, done, log, handles, api, spinner,
                   response>>

(***************************************************************************)
(* serve.rs: the task spawned by try_run_spinner                           *)
(***************************************************************************)
\* The task starts the Spinner and awaits the receiver.
SpinnerStart ==
    /\ spinner = "spawned"
    /\ spinner' = "waiting"
    /\ UNCHANGED <<inputs, config, pc, panic_msg, done, log, handles, api, tx, response>>

\* rx.await returns (a value, or an error once the Sender is gone) and the task
\* calls sp.stop_with_message.
SpinnerStop ==
    /\ spinner = "waiting"
    /\ tx \in {"sent", "closed"}
    /\ spinner' = "stopped"
    /\ UNCHANGED <<inputs, config, pc, panic_msg, done, log, handles, api, tx, response>>

\* One statement of main.
MainStep ==
    \/ MergeArgs
    \/ LoadModel
    \/ TryRunSpinner
    \/ CreateEmbedding
    \/ CreateDocSearch
    \/ CreateCodeSearch
    \/ ResolveCompletion
    \/ ResolveChat
    \/ CreateCompletionService
    \/ ApiRouter
    \/ Signal
    \/ RunApp

Next ==
    \/ MergeArgs
    \/ LoadModel
    \/ TryRunSpinner
    \/ CreateEmbedding
    \/ CreateDocSearch
    \/ CreateCodeSearch
    \/ ResolveCompletion
    \/ ResolveChat
    \/ CreateCompletionService
    \/ ApiRouter
    \/ Signal
    \/ RunApp
    \/ Request
    \/ Unwind
    \/ SpinnerStart
    \/ SpinnerStop

Spec == Init /\ [][Next]_vars

\* The runtime keeps polling the spinner task while the process lives.
Alive == pc # "panicked"
FairSpec ==
    /\ Spec
    /\ WF_vars(Alive /\ SpinnerStart)
    /\ WF_vars(Alive /\ SpinnerStop)

(***************************************************************************)
(* Properties                                                              *)
(***************************************************************************)
Merged == config # None
Count(seq, x) == Cardinality({i \in DOMAIN seq : seq[i] = x})
RouteCount(path, method) == Cardinality(RoutesAt(api, path, method))
AnyLocal(cfg) ==
    \/ cfg.model.completion.tag = "Local"
    \/ cfg.model.chat.tag = "Local"
    \/ cfg.model.embedding.tag = "Local"
PastAssembly == pc \in {"api_router", "signal", "run_app", "serving"}

\* C1: when the CLI names a model and the base config has a completion model, the
\* merged completion entry is the Local entry made of the CLI's model id,
\* parallelism and device, and the override warning was logged exactly once.
C1_CliOverrideWins ==
    (Merged /\ args.model # None /\ baseConfig.model.completion # None) =>
        /\ config.model.completion =
              [tag |-> "Local", model_id |-> args.model.val,
               parallelism |-> args.parallelism, device |-> args.device]
        /\ Count(log, OverrideWarning) = 1

C1_Witness ==
    /\ Merged
    /\ args.model # None
    /\ baseConfig.model.completion.tag = "Http"
    /\ config.model.completion.tag = "Local"
    /\ Count(log, OverrideWarning) = 1

\* C2 (as claimed): the built route table has no POST /v1/chat/completions when no
\* chat model is configured, and exactly one when a chat model is configured and
\* resolved, whatever the completion role is.
C2_ChatRouteIffChatResolved ==
    api # None =>
        /\ config.model.chat = None => RouteCount("/v1/chat/completions", "POST") = 0
        /\ (config.model.chat # None /\ chat # None) =>
               RouteCount("/v1/chat/completions", "POST") = 1

\* C3: the built route table always has exactly one POST /v1/completions; it is
\* bound to the active handler exactly when the completion role resolved; with no
\* completion model configured it is the fixed handler, every POST to the path is
\* answered 501 and no request to the path is answered 404.
C3_CompletionsPathAlwaysExists ==
    api # None =>
        /\ RouteCount("/v1/completions", "POST") = 1
        /\ \A i \in RoutesAt(api, "/v1/completions", "POST") :
              /\ api.routes[i].handler = "routes::completions" <=> engine.completion # None
              /\ api.routes[i].handler # "routes::completions" =>
                     api.routes[i].handler = NotImplementedHandler
              /\ config.model.completion = None =>
                     api.routes[i].handler = NotImplementedHandler
        /\ (response # None /\ response.path = "/v1/completions") =>
              /\ response.result.status # 404
              /\ (config.model.completion = None /\ response.method = "POST") =>
                     response.result.status = 501

C3_Witness ==
    /\ pc = "serving"
    /\ config.model.completion = None
    /\ response # None
    /\ response.path = "/v1/completions"
    /\ response.method = "POST"
    /\ response.result.status = 501

\* C4: with a Local entry on any role, main never gets past service assembly: no
\* handle reaches api_router, no route table exists, serving is never entered, and
\* the only way main stops is a panic.
C4_LocalVariantIsFatal ==
    (AnyLocal(baseConfig) \/ (Merged /\ AnyLocal(config))) =>
        /\ ~PastAssembly
        /\ api = None
        /\ response = None
        /\ ~(ENABLED MainStep) => pc = "panicked"

C4_Witness ==
    /\ pc = "panicked"
    /\ config.model.chat.tag = "Local"
    /\ panic_msg = "Local chat model is not supported"
    /\ engine # None
    /\ engine.completion # None

\* C5: whatever handles are present, the built route table has POST /v1/events,
\* GET /v1/models and GET /v1beta/server_setting exactly once each, and merging
\* the sub-routers never meets an overlapping path and method.
C5_AlwaysPresentRoutes ==
    /\ panic_msg # "Overlapping method route"
    /\ api # None =>
          /\ RouteCount("/v1/events", "POST") = 1
          /\ RouteCount("/v1/models", "GET") = 1
          /\ RouteCount("/v1beta/server_setting", "GET") = 1
          /\ ~api.overlap
          /\ \A i, j \in DOMAIN api.routes :
                (api.routes[i].path = api.routes[j].path
                 /\ api.routes[i].method = api.routes[j].method) => i = j

C5_Witness ==
    /\ api # None
    /\ completion_service # None
    /\ chat # None
    /\ RouteCount("/v1/events", "POST") = 1

HasLayers(route, wanted) == \A l \in wanted : \E i \in DOMAIN route.layers : route.layers[i] = l

\* C6 (as claimed): the active /v1/completions and /v1/chat/completions routes both
\* carry the timeout layer of the config's completion timeout and the
\* allowed-repository layer; every other route carries no layer.
C6_ChatSharesMiddleware ==
    api # None =>
        \A i \in DOMAIN api.routes :
            IF api.routes[i].handler \in {"routes::completions", "routes::chat_completions"}
            THEN HasLayers(api.routes[i],
                           {TimeoutLayer(config.server.completion_timeout),
                            AllowedCodeRepositoryLayer})
            ELSE api.routes[i].layers = <<>>

BeforeSpinner == pc \in {"merge_args", "load_model", "try_run_spinner"}

ClaimedStages ==
    {"merge_args", "embedding", "docsearch", "code_search", "completion", "chat",
     "api_router", "run_app"}
InClaimedStages(stage) == stage \in ClaimedStages
IsPrefix(s, t) == Len(s) <= Len(t) /\ \A i \in DOMAIN s : s[i] = t[i]

\* C8: main finishes its stages in the order config merge, embedding, doc search,
\* code search, completion, chat, route table, serving; completion and chat
\* resolution only run with the embedding handle and both search handles built from
\* it in place, and the route table only exists after both have finished.
C8_FixedBuildOrder ==
    /\ IsPrefix(SelectSeq(done, InClaimedStages),
                << "merge_args", "embedding", "docsearch", "code_search", "completion",
                   "chat", "api_router", "run_app" >>)
    /\ (pc \in {"completion", "chat"} \/ engine # None \/ chat # None) =>
          /\ embedding # None
          /\ docsearch # None /\ docsearch.embedding = embedding
          /\ code # None /\ code.embedding = embedding
    /\ (pc = "api_router" \/ api # None) =>
          /\ engine # None
          /\ \E i \in DOMAIN done : done[i] = "completion"
          /\ \E i \in DOMAIN done : done[i] = "chat"

C8_Witness ==
    /\ pc = "serving"
    /\ engine # None
    /\ engine.completion # None
    /\ chat # None
    /\ api # None

\* C9: merge_args leaves the base config as it was; the merged config differs from it
\* at most in the completion model entry; without a CLI model it equals the base
\* config and nothing is logged; no later statement changes the merged config.
C9_MergeFrame ==
    [][/\ baseConfig' = baseConfig
       /\ pc = "merge_args" =>
             /\ config'.model.chat = baseConfig.model.chat
             /\ config'.model.embedding = baseConfig.model.embedding
             /\ config'.server = baseConfig.server
             /\ config'.completion = baseConfig.completion
             /\ args.model = None => (config' = baseConfig /\ log' = log)
       /\ pc # "merge_args" => config' = config]_vars

C9_Witness ==
    /\ Merged
    /\ args.model # None
    /\ baseConfig.model.chat # None
    /\ config # baseConfig
    /\ config.model.chat = baseConfig.model.chat

ActiveCompletionsRoute ==
    /\ api # None
    /\ \E i \in DOMAIN api.routes :
          api.routes[i].path = "/v1/completions" /\ api.routes[i].handler = "routes::completions"

\* C10 (as claimed): with a CLI model, main never reaches api_router or serving, and
\* when it panics it does so at completion resolution, with the embedding and search
\* handles built; an active /v1/completions route needs an Http completion entry
\* taken from the file config.
C10_CliModelAbortsAtCompletion ==
    /\ args.model # None =>
          /\ ~PastAssembly
          /\ pc = "panicked" =>
                /\ panic_msg = "Local completion model is not supported"
                /\ embedding # None /\ docsearch # None /\ code # None
    /\ ActiveCompletionsRoute =>
          /\ args.model = None
          /\ baseConfig.model.completion.tag = "Http"
          /\ config.model.completion = baseConfig.model.completion

\* C10 (amended): with a CLI model, main never gets past completion resolution and
\* stops only by panicking: at embedding resolution when the embedding entry is Local,
\* otherwise at completion resolution with the embedding and search handles built; an
\* active /v1/completions route needs an Http completion entry taken from the file
\* config.
C10_CliModelNeverServes ==
    /\ args.model # None =>
          /\ ~PastAssembly
          /\ pc \notin {"chat", "completion_service"}
          /\ Merged => config.model.completion.tag = "Local"
          /\ ~(ENABLED MainStep) => pc = "panicked"
          /\ pc = "panicked" =>
                \/ /\ config.model.embedding.tag = "Local"
                   /\ panic_msg = "Local embedding model is not supported"
                   /\ embedding = None
                \/ /\ config.model.embedding.tag = "Http"
                   /\ panic_msg = "Local completion model is not supported"
                   /\ embedding # None /\ docsearch # None /\ code # None
    /\ ActiveCompletionsRoute =>
          /\ args.model = None
          /\ baseConfig.model.completion.tag = "Http"
          /\ config.model.completion = baseConfig.model.completion

C10_Witness ==
    /\ args.model # None
    /\ pc = "panicked"
    /\ panic_msg = "Local completion model is not supported"
    /\ code # None

====
